---- MODULE Spec2Model ----
(***************************************************************************)
(* Model of bdk-ffi/src/wallet.rs: the Wallet handle (a Mutex around a     *)
(* bdk_wallet PersistedWallet over a sqlite Connection), its operations,   *)
(* and the TxBuilder value object.                                         *)
(*                                                                         *)
(* wallet.rs is a thin layer: every operation takes the wallet lock with   *)
(* get_wallet and calls one bdk_wallet method.  The wrapper (locking,      *)
(* argument passing, error mapping, the order of the builder calls in      *)
(* finish) is translated from wallet.rs.  What the called bdk_wallet       *)
(* methods do is not in wallet.rs; those operators carry the prefix bdk_   *)
(* and follow the behaviour of the bdk_wallet 1.0.0-beta line.             *)
(***************************************************************************)
EXTENDS Integers, Sequences, FiniteSets, TLC

VARIABLES
    wallet,     \* the PersistedWallet<Connection> held in Wallet.inner_mutex
    store,      \* the sqlite tables behind the shared Connection
    lock,       \* owner of Wallet.inner_mutex, or NoThread
    storeLock,  \* owner of the Connection's mutex (get_store), or NoThread
    psbtLock,   \* owner of the shared Psbt's mutex, or NoThread
    pc,         \* per thread: where it is in the operation it runs
    call,       \* per thread: the operation it runs and its argument
    ret,        \* per thread: what the operation it completed last returned,
                \* until it starts the next
    atPersist,  \* history: the wallet's view when the store was last written
    issued,     \* history, per keychain: the index reveal_next_address
                \* returned last on this wallet handle
    overlap,    \* history, per thread: the input sets of the transactions
                \* other threads' finish calls built while its own finish
                \* call was running
    builder,    \* the TxBuilder value the caller holds (an Arc<TxBuilder>)
    bump_builder, \* the BumpFeeTxBuilder value the caller holds
    receiver,   \* the builder value the last mutator was called on, as the
                \* caller sees it after the call
    poisoned    \* the mutexes a panicking thread held: "wallet", "store",
                \* "psbt"

vars ==
    <<wallet, store, lock, storeLock, psbtLock, pc, call, ret, atPersist,
      issued, overlap, builder, bump_builder, receiver, poisoned>>

\* the builder values of the caller
held == <<builder, bump_builder, receiver>>

----------------------------------------------------------------------------
(* Bounds and input universes *)

\* highest derivation index the model reveals (u32 in the code)
MaxIndex == 2
\* highest block height of the model's chains
MaxHeight == 2
\* stand-in for bdk's COINBASE_MATURITY (100 blocks), scaled to MaxHeight
CoinbaseMaturity == 2

Threads == {"t1", "t2"}
NoThread == "none"
Main == "t1"

Keychains == {"External", "Internal"}
NoIndex == -1

Heights == 0..MaxHeight
NoBlock == "none"
\* block hashes a chain source may report at height h: one genesis, and a
\* main and a fork block at every height above
HashesAt(h) == IF h = 0 THEN {"g"} ELSE {"m", "f"}
Hashes == {"g", "m", "f"}

Descriptors == {"d1", "d2"}
NoDesc == <<"none", "none">>

\* The transactions a chain source may report.  Each pays one output to the
\* wallet; an outpoint of the wallet is named by its transaction id.  sent is
\* what the transaction pays to scripts that are not the wallet's, foreign
\* tells whether it spends an output no wallet transaction created, rbf
\* whether one of its inputs signals replaceability.
\*   a: coinbase paying External/0
\*   b: payment received on External/1
\*   c: wallet spend of b's output, change to Internal/0, replaceable
\*   d: wallet spend of a's output, change to Internal/1, final
TxIds == {"a", "b", "c", "d"}
TxData ==
    [a |-> [value |-> 50, keychain |-> "External", index |-> 0,
            spends |-> {}, coinbase |-> TRUE,
            sent |-> 0, foreign |-> FALSE, rbf |-> FALSE],
     b |-> [value |-> 30, keychain |-> "External", index |-> 1,
            spends |-> {}, coinbase |-> FALSE,
            sent |-> 0, foreign |-> TRUE, rbf |-> TRUE],
     c |-> [value |-> 20, keychain |-> "Internal", index |-> 0,
            spends |-> {"b"}, coinbase |-> FALSE,
            sent |-> 5, foreign |-> FALSE, rbf |-> TRUE],
     d |-> [value |-> 40, keychain |-> "Internal", index |-> 1,
            spends |-> {"a"}, coinbase |-> FALSE,
            sent |-> 5, foreign |-> FALSE, rbf |-> FALSE]]
\* the block each transaction can be mined in
AnchorOf ==
    [a |-> <<1, "m">>, b |-> <<MaxHeight, "m">>, c |-> <<MaxHeight, "m">>,
     d |-> <<MaxHeight, "m">>]

Max(a, b) == IF a >= b THEN a ELSE b

RECURSIVE SumValues(_)
SumValues(S) ==
    IF S = {} THEN 0
    ELSE LET x == CHOOSE y \in S : TRUE
         IN TxData[x].value + SumValues(S \ {x})

----------------------------------------------------------------------------
(* bdk_wallet::ChangeSet and the sqlite store *)

\* a changeset: descriptors, chain blocks ("keep" = not mentioned, NoBlock =
\* block removed), transactions, anchors, seen-in-mempool marks, last
\* revealed index per keychain (NoIndex = not mentioned)
EmptyChangeSet ==
    [desc |-> NoDesc,
     blocks |-> [h \in Heights |-> "keep"],
     txs |-> {}, anchors |-> {}, seen |-> {},
     revealed |-> [k \in Keychains |-> NoIndex]]

\* bdk_wallet ChangeSet::merge: later blocks override, sets grow, indices max
Merge(a, b) ==
    [desc |-> IF b.desc = NoDesc THEN a.desc ELSE b.desc,
     blocks |-> [h \in Heights |->
                    IF b.blocks[h] = "keep" THEN a.blocks[h] ELSE b.blocks[h]],
     txs |-> a.txs \cup b.txs,
     anchors |-> a.anchors \cup b.anchors,
     seen |-> a.seen \cup b.seen,
     revealed |-> [k \in Keychains |-> Max(a.revealed[k], b.revealed[k])]]

\* a fresh Connection: no rows
EmptyStore ==
    [desc |-> NoDesc, blocks |-> {}, txs |-> {}, anchors |-> {}, seen |-> {},
     revealed |-> [k \in Keychains |-> NoIndex]]

\* ChangeSet::persist_to_sqlite, in one sqlite transaction: upsert the rows
\* of the changeset, delete the rows of removed blocks
persist_to_sqlite(db, cs) ==
    [desc |-> IF cs.desc = NoDesc THEN db.desc ELSE cs.desc,
     blocks |-> {r \in db.blocks : cs.blocks[r[1]] = "keep"}
                \cup {<<h, cs.blocks[h]>> : h \in
                        {x \in Heights : cs.blocks[x] \notin {"keep", NoBlock}}},
     txs |-> db.txs \cup cs.txs,
     anchors |-> db.anchors \cup cs.anchors,
     seen |-> db.seen \cup cs.seen,
     revealed |-> [k \in Keychains |-> Max(db.revealed[k], cs.revealed[k])]]

\* ChangeSet::from_sqlite: all rows read back as one changeset
from_sqlite(db) ==
    [desc |-> db.desc,
     blocks |-> [h \in Heights |->
                    IF \E r \in db.blocks : r[1] = h
                    THEN (CHOOSE r \in db.blocks : r[1] = h)[2]
                    ELSE "keep"],
     txs |-> db.txs, anchors |-> db.anchors, seen |-> db.seen,
     revealed |-> db.revealed]

\* the wallet object; open = FALSE before Wallet::new / Wallet::load returned
NoWallet ==
    [open |-> FALSE, desc |-> NoDesc,
     chain |-> [h \in Heights |-> NoBlock],
     txs |-> {}, anchors |-> {}, seen |-> {},
     revealed |-> [k \in Keychains |-> NoIndex],
     marked |-> {},
     stage |-> EmptyChangeSet]

\* bdk Wallet::create_with_params: a fresh wallet whose stage holds the
\* descriptors and the genesis block
bdk_create(d, cd) ==
    [NoWallet EXCEPT
        !.open = TRUE, !.desc = <<d, cd>>,
        !.chain = [h \in Heights |-> IF h = 0 THEN "g" ELSE NoBlock],
        !.stage = [EmptyChangeSet EXCEPT
                      !.desc = <<d, cd>>,
                      !.blocks = [h \in Heights |->
                                     IF h = 0 THEN "g" ELSE "keep"]]]

\* bdk Wallet::load_with_params: the wallet rebuilt from a changeset
bdk_load(cs) ==
    [NoWallet EXCEPT
        !.open = TRUE, !.desc = cs.desc,
        !.chain = [h \in Heights |->
                      IF cs.blocks[h] = "keep" THEN NoBlock ELSE cs.blocks[h]],
        !.txs = cs.txs, !.anchors = cs.anchors, !.seen = cs.seen,
        !.revealed = cs.revealed]

----------------------------------------------------------------------------
(* Queries of bdk_wallet over the wallet's chain and transaction graph *)

\* LocalChain::tip: the highest block of the chain
TipHeight(w) ==
    CHOOSE h \in Heights :
        /\ w.chain[h] # NoBlock
        /\ \A g \in Heights : w.chain[g] # NoBlock => g <= h

\* a transaction is confirmed when one of its anchor blocks is in the chain
Confirmed(w, tx) ==
    \E an \in w.anchors : an[1] = tx /\ w.chain[an[2]] = an[3]

ConfHeight(w, tx) ==
    (CHOOSE an \in w.anchors : an[1] = tx /\ w.chain[an[2]] = an[3])[2]

\* TxGraph canonical transactions: known, and confirmed in the chain or seen
\* in the mempool (the model's transactions do not conflict)
Canonical(w, tx) ==
    tx \in w.txs /\ (Confirmed(w, tx) \/ tx \in w.seen)

\* an outpoint is spent when a canonical transaction spends it
IsSpent(w, o) ==
    \E tx \in TxIds : Canonical(w, tx) /\ o \in TxData[tx].spends

LocalOutput(w, o) ==
    [outpoint |-> o, value |-> TxData[o].value,
     keychain |-> TxData[o].keychain, index |-> TxData[o].index,
     is_spent |-> IsSpent(w, o), confirmed |-> Confirmed(w, o)]

\* bdk Wallet::list_output: the outputs of canonical transactions
bdk_list_output(w) ==
    {LocalOutput(w, o) : o \in {tx \in TxIds : Canonical(w, tx)}}

\* bdk Wallet::list_unspent: the canonical outputs nothing canonical spends
bdk_list_unspent(w) ==
    {lo \in bdk_list_output(w) : ~lo.is_spent}

\* FullTxOut::is_mature: a coinbase output matures CoinbaseMaturity blocks in
IsMature(w, o) ==
    IF ~TxData[o].coinbase THEN TRUE
    ELSE IF ~Confirmed(w, o) THEN FALSE
    ELSE TipHeight(w) - ConfHeight(w, o) + 1 >= CoinbaseMaturity

\* FullTxOut::is_confirmed_and_spendable
IsConfirmedAndSpendable(w, o) ==
    /\ IsMature(w, o)
    /\ Confirmed(w, o)
    /\ ConfHeight(w, o) <= TipHeight(w)
    /\ ~\E tx \in TxIds :
          /\ o \in TxData[tx].spends /\ Canonical(w, tx) /\ Confirmed(w, tx)
          /\ ConfHeight(w, tx) <= TipHeight(w)

\* value of the unspent outputs that satisfy P
RECURSIVE SumOutputs(_)
SumOutputs(S) ==
    IF S = {} THEN 0
    ELSE LET x == CHOOSE y \in S : TRUE
         IN x.value + SumOutputs(S \ {x})

\* TxGraph::balance with the wallet's trust predicate (internal keychain)
bdk_balance(w) ==
    LET U == bdk_list_unspent(w)
        conf == {lo \in U : lo.confirmed
                            /\ IsConfirmedAndSpendable(w, lo.outpoint)}
        imm == {lo \in U : lo.confirmed
                           /\ ~IsConfirmedAndSpendable(w, lo.outpoint)
                           /\ ~IsMature(w, lo.outpoint)}
        tp == {lo \in U : ~lo.confirmed /\ lo.keychain = "Internal"}
        up == {lo \in U : ~lo.confirmed /\ lo.keychain # "Internal"}
    IN [immature |-> SumOutputs(imm),
        trusted_pending |-> SumOutputs(tp),
        untrusted_pending |-> SumOutputs(up),
        confirmed |-> SumOutputs(conf)]

----------------------------------------------------------------------------
(* bdk_chain local_chain::merge_chains, called by Wallet::apply_update *)

MergeStart ==
    [cs |-> [h \in Heights |-> "keep"], prevOrig |-> FALSE, prevUpd |-> FALSE,
     poa |-> FALSE, inval |-> FALSE, pot |-> {}, err |-> FALSE]

\* one round of the loop, at height h: o and u are the original's and the
\* update's block there (NoBlock when the chain has none at h)
MergeStep(st, o, u, h) ==
    IF st.err THEN st
    ELSE IF u # NoBlock /\ o = NoBlock
    THEN \* update block the original has not: an addition
         [st EXCEPT !.cs[h] = u, !.prevUpd = TRUE]
    ELSE IF o # NoBlock /\ u = NoBlock
    THEN \* original block the update has not: gone if a lower one is replaced
         [st EXCEPT !.pot = @ \cup {h}, !.inval = FALSE, !.prevOrig = TRUE]
    ELSE IF o # NoBlock /\ u # NoBlock
    THEN IF o = u
         THEN \* point of agreement: the original block above it, if any,
              \* must have been invalidated when the update goes higher
              IF ~st.inval /\ ~st.poa /\ st.prevOrig /\ st.prevUpd
              THEN [st EXCEPT !.err = TRUE]
              ELSE [st EXCEPT !.poa = TRUE, !.inval = FALSE,
                              !.prevOrig = TRUE, !.prevUpd = TRUE]
         ELSE \* invalidation: take the update's block, purge the original
              \* blocks above it
              [st EXCEPT
                  !.cs = [x \in Heights |->
                             IF x = h THEN u
                             ELSE IF x \in st.pot THEN NoBlock
                             ELSE st.cs[x]],
                  !.pot = {}, !.inval = TRUE,
                  !.prevOrig = TRUE, !.prevUpd = TRUE]
    ELSE st

\* the loop, from the tips down to height 0
RECURSIVE MergeFrom(_, _, _, _)
MergeFrom(st, orig, upd, h) ==
    LET nxt == MergeStep(st, orig[h], upd[h], h)
    IN IF h = 0 THEN nxt ELSE MergeFrom(nxt, orig, upd, h - 1)

\* merge_chains: the changeset, or CannotConnect (err)
merge_chains(orig, upd) ==
    LET st == MergeFrom(MergeStart, orig, upd, MaxHeight)
    IN IF st.err \/ (~st.inval /\ ~st.poa /\ st.prevOrig)
       THEN [err |-> TRUE, cs |-> MergeStart.cs]
       ELSE [err |-> FALSE, cs |-> st.cs]

\* apply_changeset_to_checkpoint
ApplyBlocks(chain, cs) ==
    [h \in Heights |-> IF cs[h] = "keep" THEN chain[h] ELSE cs[h]]

----------------------------------------------------------------------------
(* Updates from the chain source *)

NoTx == "none"
NoChainUpdate == [h \in Heights |-> NoBlock]

\* an Update: checkpoints of the source's chain (a block or none per height),
\* at most one transaction with its position, and last active indices
\* checkpoints: none, one block, or a base block and a newer block
ChainUpdates ==
    {cu \in [Heights -> Hashes \cup {NoBlock}] :
        /\ \A h \in Heights : cu[h] = NoBlock \/ cu[h] \in HashesAt(h)
        /\ Cardinality({h \in Heights : cu[h] # NoBlock}) <= 2}

\* the positions a source may report for each transaction: the coinbase a
\* is mined, b is seen in the mempool and may be mined, c is seen
TxPositions(tx) ==
    IF tx = "a" THEN {[anchored |-> TRUE, seen |-> FALSE]}
    ELSE IF tx = "b"
    THEN {[anchored |-> FALSE, seen |-> TRUE],
          [anchored |-> TRUE, seen |-> TRUE]}
    ELSE {[anchored |-> FALSE, seen |-> TRUE]}

LastActive ==
    {[k \in Keychains |-> NoIndex],
     [k \in Keychains |-> IF k = "External" THEN 1 ELSE NoIndex]}

Update(cu, tx, pos, la) ==
    [chain |-> cu, tx |-> tx, anchored |-> pos.anchored, seen |-> pos.seen,
     last_active |-> la]

NoPosition == [anchored |-> FALSE, seen |-> FALSE]

\* the updates of the model: checkpoints alone or with the mined coinbase a,
\* and the mempool transactions b and c alone
Updates ==
    {Update(cu, NoTx, NoPosition, la) : cu \in ChainUpdates, la \in LastActive}
    \cup
    {Update(cu, "a", [anchored |-> TRUE, seen |-> FALSE], la) :
        cu \in ChainUpdates, la \in LastActive}
    \cup
    UNION {{Update(NoChainUpdate, tx, p, la) :
              la \in LastActive, p \in TxPositions(tx)} : tx \in {"b", "c"}}

\* bdk Wallet::apply_update: connect the chain first (the only step that can
\* fail), then reveal up to the last active indices, then add the
\* transactions (indexing their outputs); stage what changed
bdk_apply_update(w, u) ==
    LET mc == IF u.chain = NoChainUpdate
              THEN [err |-> FALSE, cs |-> MergeStart.cs]
              ELSE merge_chains(w.chain, u.chain)
        paid == [k \in Keychains |->
                    IF u.tx # NoTx /\ TxData[u.tx].keychain = k
                    THEN TxData[u.tx].index ELSE NoIndex]
        target == [k \in Keychains |-> Max(u.last_active[k], paid[k])]
        newTxs == IF u.tx = NoTx THEN {} ELSE {u.tx} \ w.txs
        newAnchors == IF u.tx # NoTx /\ u.anchored
                      THEN {<<u.tx, AnchorOf[u.tx][1], AnchorOf[u.tx][2]>>}
                           \ w.anchors
                      ELSE {}
        newSeen == IF u.tx # NoTx /\ u.seen THEN {u.tx} \ w.seen ELSE {}
        cs == [desc |-> NoDesc,
               blocks |-> mc.cs,
               txs |-> newTxs, anchors |-> newAnchors, seen |-> newSeen,
               revealed |-> [k \in Keychains |->
                                IF target[k] > w.revealed[k]
                                THEN target[k] ELSE NoIndex]]
    IN IF mc.err
       THEN [ok |-> FALSE, wallet |-> w]
       ELSE [ok |-> TRUE,
             wallet |-> [w EXCEPT
                 !.chain = ApplyBlocks(w.chain, mc.cs),
                 !.revealed = [k \in Keychains |->
                                  Max(w.revealed[k], target[k])],
                 !.txs = @ \cup newTxs,
                 !.anchors = @ \cup newAnchors,
                 !.seen = @ \cup newSeen,
                 !.stage = Merge(w.stage, cs)]]

----------------------------------------------------------------------------
(* TxBuilder: the value object of wallet.rs *)

NoFee == -1

\* Option<RbfValue>: None, Some(Default), Some(Value(nsequence))
NoRbf == [kind |-> "None", nsequence |-> 0]
RbfDefault == [kind |-> "Default", nsequence |-> 0]
RbfValue(nsequence) == [kind |-> "Value", nsequence |-> nsequence]

\* TxBuilder::new
TxBuilder_new ==
    [recipients |-> <<>>, utxos |-> <<>>, unspendable |-> {},
     change_policy |-> "ChangeAllowed", manually_selected_only |-> FALSE,
     fee_rate |-> NoFee, fee_absolute |-> NoFee,
     drain_wallet |-> FALSE, drain_to |-> FALSE, rbf |-> NoRbf]

\* the mutators: a new value, the receiver's fields cloned but one
add_recipient(b, amount) == [b EXCEPT !.recipients = Append(@, amount)]
set_recipients(b, amounts) == [b EXCEPT !.recipients = amounts]
add_unspendable(b, outpoint) == [b EXCEPT !.unspendable = @ \cup {outpoint}]
unspendable(b, outpoints) ==
    [b EXCEPT !.unspendable = {outpoints[i] : i \in DOMAIN outpoints}]
add_utxos(b, outpoints) == [b EXCEPT !.utxos = @ \o outpoints]
add_utxo(b, outpoint) == add_utxos(b, <<outpoint>>)
change_policy(b, policy) == [b EXCEPT !.change_policy = policy]
do_not_spend_change(b) == [b EXCEPT !.change_policy = "ChangeForbidden"]
only_spend_change(b) == [b EXCEPT !.change_policy = "OnlyChange"]
manually_selected_only(b) == [b EXCEPT !.manually_selected_only = TRUE]
fee_rate(b, rate) == [b EXCEPT !.fee_rate = rate]
\* fee_absolute taking the place of a fee rate set before
fee_absolute_clears_rate(b, amount) ==
    [b EXCEPT !.fee_absolute = amount, !.fee_rate = NoFee]
fee_absolute(b, amount) == [b EXCEPT !.fee_absolute = amount]
drain_wallet(b) == [b EXCEPT !.drain_wallet = TRUE]
drain_to(b) == [b EXCEPT !.drain_to = TRUE]
enable_rbf(b) == [b EXCEPT !.rbf = RbfDefault]
enable_rbf_with_sequence(b, nsequence) == [b EXCEPT !.rbf = RbfValue(nsequence)]

\* BumpFeeTxBuilder: new and its two mutators
NoTxid == "none"
NoBumpBuilder == [txid |-> NoTxid, fee_rate |-> NoFee, rbf |-> NoRbf]
BumpFeeTxBuilder_new(txid, rate) ==
    [txid |-> txid, fee_rate |-> rate, rbf |-> NoRbf]
BumpFee_enable_rbf(b) == [b EXCEPT !.rbf = RbfDefault]
BumpFee_enable_rbf_with_sequence(b, nsequence) ==
    [b EXCEPT !.rbf = RbfValue(nsequence)]

----------------------------------------------------------------------------
(* bdk_wallet transaction building (Wallet::build_tx ... TxBuilder::finish) *)

\* stand-ins, in small units, for the weight of an empty transaction, of one
\* input and of one output, for the dust limit and for the default fee rate
BaseWeight == 1
InputWeight == 2
OutputWeight == 1
DustLimit == 5
DefaultFeeRate == 1

RangeOf(s) == {s[i] : i \in DOMAIN s}

RECURSIVE SumSeq(_)
SumSeq(s) == IF s = <<>> THEN 0 ELSE Head(s) + SumSeq(Tail(s))

NoPsbt ==
    [inputs |-> {}, outgoing |-> 0, change |-> 0, fee |-> 0,
     drain |-> "none", sequence |-> "none", signed |-> FALSE]

\* KeychainTxOutIndex: an index is used when a known transaction pays to it
\* or create_tx marked it
IsUsed(w, k, i) ==
    \/ \E tx \in w.txs : TxData[tx].keychain = k /\ TxData[tx].index = i
    \/ k = "Internal" /\ i \in w.marked

\* the change index create_tx picks: the lowest revealed unused internal
\* index, else the next index to reveal
ChangeIndex(w) ==
    LET unused == {i \in 0..w.revealed["Internal"] :
                      ~IsUsed(w, "Internal", i)}
    IN IF unused # {}
       THEN CHOOSE i \in unused : \A j \in unused : i <= j
       ELSE w.revealed["Internal"] + 1

\* ChangeSpendPolicy::is_satisfied_by
PolicyAllows(policy, lo) ==
    CASE policy = "ChangeAllowed" -> TRUE
      [] policy = "OnlyChange" -> lo.keychain = "Internal"
      [] policy = "ChangeForbidden" -> lo.keychain = "External"

\* Wallet::preselect_utxos, the optional set: unspent, policy-eligible, not
\* unspendable, not already required, coinbase outputs mature; a fee bump
\* draws on confirmed outputs only
MaySpend(w, p) ==
    {lo.outpoint : lo \in
        {x \in bdk_list_unspent(w) :
            /\ PolicyAllows(p.change_policy, x)
            /\ x.outpoint \notin p.unspendable
            /\ x.outpoint \notin p.utxos
            /\ (p.bumping_fee # NoFee => x.confirmed)
            /\ (TxData[x.outpoint].coinbase =>
                   /\ x.confirmed
                   /\ TipHeight(w) - ConfHeight(w, x.outpoint)
                          >= CoinbaseMaturity)}}


\* the fee rate and the fee known before inputs are selected
RateOf(p) ==
    CASE p.fee_kind = "abs" -> 0
      [] p.fee_kind = "rate" -> p.fee
      [] OTHER -> DefaultFeeRate

BaseFee(p) ==
    (IF p.fee_kind = "abs" THEN p.fee ELSE 0)
    + RateOf(p) * (BaseWeight + OutputWeight * Len(p.recipients))

\* what is left of the inputs after the recipients and the fee for the
\* transaction with these inputs
Remaining(p, inputs) ==
    SumValues(inputs) - SumSeq(p.recipients) - BaseFee(p)
    - RateOf(p) * InputWeight * Cardinality(inputs)

\* the input sets coin selection may return: the required inputs plus
\* optional ones, drawn until the target is covered (the last one drawn was
\* needed)
Selections(w, p) ==
    LET may == MaySpend(w, p)
        required == IF p.drain_wallet /\ ~p.manually_selected_only
                    THEN p.utxos \cup may ELSE p.utxos
        optional == IF p.manually_selected_only \/ p.drain_wallet
                    THEN {} ELSE may
    IN {required \cup S : S \in
          {T \in SUBSET optional :
              /\ Remaining(p, required \cup T) >= 0
              /\ T # {} =>
                    \E x \in T : Remaining(p, (required \cup T) \ {x}) < 0}}

\* the transaction built over one selection, and the wallet afterwards
BuildOver(w, p, inputs) ==
    LET remaining == Remaining(p, inputs)
        changeFee == RateOf(p) * OutputWeight
        drainVal == IF remaining >= changeFee THEN remaining - changeFee ELSE 0
        hasChange == drainVal >= DustLimit
        inputFee == RateOf(p) * InputWeight * Cardinality(inputs)
        idx == ChangeIndex(w)
        psbt == [inputs |-> inputs,
                 outgoing |-> SumSeq(p.recipients),
                 change |-> IF hasChange THEN drainVal ELSE 0,
                 fee |-> IF hasChange
                         THEN BaseFee(p) + inputFee + changeFee
                         ELSE BaseFee(p) + inputFee + remaining,
                 drain |-> IF ~hasChange THEN "none"
                           ELSE IF p.drain_to THEN "drain_to" ELSE "change",
                 sequence |-> IF p.rbf.kind = "None" THEN "final" ELSE "rbf",
                 signed |-> FALSE]
    IN IF p.recipients = <<>>
          /\ ~(p.drain_to /\ (p.drain_wallet \/ p.utxos # {}))
       THEN [res |-> "NoRecipients", psbt |-> NoPsbt, wallet |-> w]
       ELSE IF p.recipients = <<>> /\ ~hasChange
       THEN [res |-> "InsufficientFunds", psbt |-> NoPsbt, wallet |-> w]
       ELSE IF hasChange /\ ~p.drain_to
       THEN \* a change output to the internal keychain: reveal and mark its
            \* index, stage the reveal
            [res |-> "Ok", psbt |-> psbt,
             wallet |-> [w EXCEPT
                !.revealed["Internal"] = Max(@, idx),
                !.marked = @ \cup {idx},
                !.stage = Merge(@, [EmptyChangeSet EXCEPT
                              !.revealed["Internal"] =
                                  IF idx > w.revealed["Internal"]
                                  THEN idx ELSE NoIndex])]]
       ELSE [res |-> "Ok", psbt |-> psbt, wallet |-> w]

\* stand-in for the largest Amount (u64::MAX satoshi): a sum above it makes
\* Amount's addition panic
MaxAmount == 1000

\* stand-in for the first sequence number that does not signal replacement
\* (Sequence::is_rbf: below 0xFFFFFFFE)
NoRbfFrom == 3

\* create_tx without the minimum increment rule of a fee bump
bdk_create_tx_any_rate(w, p) ==
    IF p.rbf.kind = "Value" /\ p.rbf.nsequence >= NoRbfFrom
    THEN {[res |-> "RbfSequence", psbt |-> NoPsbt, wallet |-> w]}
    ELSE IF \E i \in DOMAIN p.recipients :
               /\ p.recipients[i] < DustLimit
               /\ SumSeq(SubSeq(p.recipients, 1, i - 1)) <= MaxAmount
    THEN {[res |-> "OutputBelowDustLimit", psbt |-> NoPsbt, wallet |-> w]}
    ELSE IF SumSeq(p.recipients) > MaxAmount
    THEN \* outgoing += value overflows while the outputs are added up
         {[res |-> "panic", psbt |-> NoPsbt, wallet |-> w]}
    ELSE IF Selections(w, p) = {}
    THEN {[res |-> "InsufficientFunds", psbt |-> NoPsbt, wallet |-> w]}
    ELSE {BuildOver(w, p, inputs) : inputs \in Selections(w, p)}

\* bdk Wallet::create_tx: every result the call may produce
bdk_create_tx(w, p) ==
    IF p.rbf.kind = "Value" /\ p.rbf.nsequence >= NoRbfFrom
    THEN {[res |-> "RbfSequence", psbt |-> NoPsbt, wallet |-> w]}
    ELSE IF /\ p.bumping_fee # NoFee /\ p.fee_kind = "rate"
            /\ p.fee < p.bumping_fee + DefaultFeeRate
    THEN \* a replacement pays at least the replaced transaction's rate plus
         \* FeeRate::BROADCAST_MIN, which is also the default rate
         {[res |-> "FeeRateTooLow", psbt |-> NoPsbt, wallet |-> w]}
    ELSE IF \E i \in DOMAIN p.recipients :
               /\ p.recipients[i] < DustLimit
               /\ SumSeq(SubSeq(p.recipients, 1, i - 1)) <= MaxAmount
    THEN {[res |-> "OutputBelowDustLimit", psbt |-> NoPsbt, wallet |-> w]}
    ELSE IF SumSeq(p.recipients) > MaxAmount
    THEN \* outgoing += value overflows while the outputs are added up
         {[res |-> "panic", psbt |-> NoPsbt, wallet |-> w]}
    ELSE IF Selections(w, p) = {}
    THEN {[res |-> "InsufficientFunds", psbt |-> NoPsbt, wallet |-> w]}
    ELSE {BuildOver(w, p, inputs) : inputs \in Selections(w, p)}

\* bdk TxBuilder::add_utxos: every outpoint must be an unspent output of the
\* wallet
KnownUtxos(w, outpoints) ==
    outpoints \subseteq {lo.outpoint : lo \in bdk_list_unspent(w)}

\* the bdk builder after TxBuilder::finish of wallet.rs has replayed the
\* builder's fields on it in the order of the code: fee_rate first, then
\* fee_absolute, each replacing the bdk builder's one fee policy
Params(b) ==
    [recipients |-> b.recipients,
     utxos |-> RangeOf(b.utxos),
     unspendable |-> b.unspendable,
     change_policy |-> b.change_policy,
     manually_selected_only |-> b.manually_selected_only,
     fee_kind |-> IF b.fee_absolute # NoFee THEN "abs"
                  ELSE IF b.fee_rate # NoFee THEN "rate"
                  ELSE "default",
     fee |-> IF b.fee_absolute # NoFee THEN b.fee_absolute
             ELSE IF b.fee_rate # NoFee THEN b.fee_rate ELSE 0,
     drain_wallet |-> b.drain_wallet,
     drain_to |-> b.drain_to,
     rbf |-> b.rbf,
     bumping_fee |-> NoFee]

\* finish replaying fee_absolute before fee_rate: a fee rate replaces the
\* absolute fee
finish_rate_last(b, w) ==
    LET p == [Params(b) EXCEPT
                 !.fee_kind = IF b.fee_rate # NoFee THEN "rate"
                              ELSE IF b.fee_absolute # NoFee THEN "abs"
                              ELSE "default",
                 !.fee = IF b.fee_rate # NoFee THEN b.fee_rate
                         ELSE IF b.fee_absolute # NoFee THEN b.fee_absolute
                         ELSE 0]
    IN IF b.utxos # <<>> /\ ~KnownUtxos(w, RangeOf(b.utxos))
       THEN {[res |-> "UnknownUtxo", psbt |-> NoPsbt, wallet |-> w]}
       ELSE bdk_create_tx(w, p)

\* finish without the manually_selected_only replay
finish_without_manually_selected_only(b, w) ==
    IF b.utxos # <<>> /\ ~KnownUtxos(w, RangeOf(b.utxos))
    THEN {[res |-> "UnknownUtxo", psbt |-> NoPsbt, wallet |-> w]}
    ELSE bdk_create_tx(w, [Params(b) EXCEPT !.manually_selected_only = FALSE])

\* finish without the unspendable replay
finish_without_unspendable(b, w) ==
    IF b.utxos # <<>> /\ ~KnownUtxos(w, RangeOf(b.utxos))
    THEN {[res |-> "UnknownUtxo", psbt |-> NoPsbt, wallet |-> w]}
    ELSE bdk_create_tx(w, [Params(b) EXCEPT !.unspendable = {}])

\* TxBuilder::finish of wallet.rs, inside the wallet lock: add_utxos fails
\* early on an unknown outpoint, else the bdk builder finishes
finish(b, w) ==
    IF b.utxos # <<>> /\ ~KnownUtxos(w, RangeOf(b.utxos))
    THEN {[res |-> "UnknownUtxo", psbt |-> NoPsbt, wallet |-> w]}
    ELSE bdk_create_tx(w, Params(b))

----------------------------------------------------------------------------
(* Fees of known transactions and fee bumps *)

\* A transaction as calculate_fee sees it: the outpoints its inputs spend
\* ("x" is an output no wallet transaction created), the sum of its outputs
\* and its weight.
TxOf(id) ==
    LET d == TxData[id]
        ins == d.spends \cup (IF d.foreign THEN {"x"} ELSE {})
    IN [inputs |-> ins,
        outputs |-> d.value + d.sent,
        coinbase |-> d.coinbase,
        weight |-> BaseWeight + InputWeight * Cardinality(ins)
                   + OutputWeight * (IF d.sent > 0 THEN 2 ELSE 1)]

\* calculate_fee returning the difference whatever its sign
bdk_calculate_fee_signed(w, tx) ==
    IF tx.coinbase THEN [res |-> "Ok", fee |-> 0]
    ELSE IF ~(tx.inputs \subseteq w.txs)
    THEN [res |-> "MissingTxOut", fee |-> NoFee]
    ELSE [res |-> "Ok", fee |-> SumValues(tx.inputs) - tx.outputs]

\* bdk TxGraph::calculate_fee: a coinbase transaction has fee 0; otherwise
\* every input is looked up among the transactions of the graph
bdk_calculate_fee(w, tx) ==
    IF tx.coinbase THEN [res |-> "Ok", fee |-> 0]
    ELSE IF ~(tx.inputs \subseteq w.txs)
    THEN [res |-> "MissingTxOut", fee |-> NoFee]
    ELSE IF SumValues(tx.inputs) < tx.outputs
    THEN [res |-> "NegativeFee", fee |-> NoFee]
    ELSE [res |-> "Ok", fee |-> SumValues(tx.inputs) - tx.outputs]

\* the well-formed transaction ids; any other string fails Txid::from_str
Txids == TxIds \cup {"z"}

\* BumpFeeTxBuilder::finish: the id is parsed, bdk's build_fee_bump
\* rebuilds the parameters of the transaction to replace (its recipients
\* without the change output, its inputs as required inputs, its fee rate
\* as the rate to exceed), the builder's rate and RBF setting are replayed
\* and the replacement is built
bump_finish(b, w) ==
    LET fail(e) == {[res |-> e, psbt |-> NoPsbt, wallet |-> w]}
        d == TxData[b.txid]
        fee == bdk_calculate_fee(w, TxOf(b.txid))
    IN IF b.txid \notin Txids THEN fail("UnknownUtxo")
       ELSE IF b.txid \notin w.txs \/ ~Canonical(w, b.txid)
       THEN fail("TransactionNotFound")
       ELSE IF Confirmed(w, b.txid) THEN fail("TransactionConfirmed")
       ELSE IF ~d.rbf THEN fail("IrreplaceableTransaction")
       ELSE IF fee.res # "Ok" THEN fail("FeeRateUnavailable")
       ELSE IF \E o \in d.spends : ~Canonical(w, o) THEN fail("UnknownUtxo")
       ELSE bdk_create_tx(w,
               [Params(TxBuilder_new) EXCEPT
                   !.recipients = IF d.sent = 0 THEN <<d.value>>
                                  ELSE IF d.keychain = "Internal"
                                  THEN <<d.sent>>
                                  ELSE <<d.sent, d.value>>,
                   !.utxos = d.spends,
                   !.fee_kind = "rate", !.fee = b.fee_rate, !.rbf = b.rbf,
                   !.bumping_fee = fee.fee \div TxOf(b.txid).weight])

----------------------------------------------------------------------------
(* The remaining bdk_wallet calls of wallet.rs *)

\* bdk Wallet::reveal_next_address: the index after the last revealed one,
\* staged
bdk_reveal_next_address(w, k) ==
    LET idx == w.revealed[k] + 1
    IN [index |-> idx,
        wallet |-> [w EXCEPT
            !.revealed[k] = idx,
            !.stage = Merge(@, [EmptyChangeSet EXCEPT !.revealed[k] = idx])]]

\* bdk PersistedWallet::persist: write the stage, if there is one, and only
\* then take it; dbOk = FALSE is a failing sqlite transaction
bdk_persist(w, db, dbOk) ==
    IF w.stage = EmptyChangeSet
    THEN [res |-> "false", wallet |-> w, store |-> db]
    ELSE IF ~dbOk
    THEN [res |-> "SqliteError", wallet |-> w, store |-> db]
    ELSE [res |-> "true",
          wallet |-> [w EXCEPT !.stage = EmptyChangeSet],
          store |-> persist_to_sqlite(db, w.stage)]

\* bdk PersistedWallet::create (CreateParams::create_wallet): refuse a store
\* that holds a wallet, else create and write the initial changeset
bdk_create_wallet(d, cd, db, dbOk) ==
    LET w == bdk_create(d, cd)
    IN IF ~dbOk
       THEN [res |-> "Persist", wallet |-> NoWallet, store |-> db]
       ELSE IF from_sqlite(db) # EmptyChangeSet
       THEN [res |-> "DataAlreadyExists", wallet |-> NoWallet, store |-> db]
       ELSE [res |-> "Ok",
             wallet |-> [w EXCEPT !.stage = EmptyChangeSet],
             store |-> persist_to_sqlite(db, w.stage)]

\* bdk PersistedWallet::load (LoadParams::load_wallet) with both descriptors
\* checked: None for an empty store, an error for other descriptors
bdk_load_wallet(d, cd, db, dbOk) ==
    LET cs == from_sqlite(db)
    IN IF ~dbOk
       THEN [res |-> "Persist", wallet |-> NoWallet]
       ELSE IF cs = EmptyChangeSet
       THEN [res |-> "CouldNotLoad", wallet |-> NoWallet]
       ELSE IF cs.desc # <<d, cd>>
       THEN [res |-> "Mismatch", wallet |-> NoWallet]
       ELSE [res |-> "Ok", wallet |-> bdk_load(cs)]

\* bdk Wallet::sign with the default options: sign and finalize in place
bdk_sign(w, psbt) == [psbt EXCEPT !.signed = TRUE]

----------------------------------------------------------------------------
(* What an operation returned, and the wallet as its callers see it *)

ZeroBalance ==
    [immature |-> 0, trusted_pending |-> 0, untrusted_pending |-> 0,
     confirmed |-> 0]

NoRet ==
    [op |-> "none", res |-> "none", keychain |-> "none", index |-> NoIndex,
     psbt |-> NoPsbt, balance |-> ZeroBalance, outs |-> {}, fee |-> NoFee]

NoneIssued == [k \in Keychains |-> NoIndex]

NoCall == [op |-> "none", arg |-> "none"]

Returned(name, result) == [NoRet EXCEPT !.op = name, !.res = result]

\* the wallet's Output set, keychain indices and descriptors
View(w) ==
    [desc |-> w.desc, revealed |-> w.revealed,
     outputs |-> bdk_list_output(w)]

----------------------------------------------------------------------------
(* The operations of wallet.rs, as run by thread t once it is inside the    *)
(* locks the operation takes                                                 *)

\* Wallet::new: create on the connection's store
new(t, d, cd, dbOk) ==
    LET r == bdk_create_wallet(d, cd, store, dbOk)
    IN /\ wallet' = IF r.res = "Ok" THEN r.wallet ELSE wallet
       /\ store' = r.store
       /\ atPersist' = IF r.res = "Ok" THEN View(r.wallet) ELSE atPersist
       /\ issued' = IF r.res = "Ok" THEN NoneIssued ELSE issued
       /\ ret' = [ret EXCEPT ![t] = Returned("new", r.res)]

\* Wallet::load: rebuild from the connection's store; ok_or(CouldNotLoad)
load(t, d, cd, dbOk) ==
    LET r == bdk_load_wallet(d, cd, store, dbOk)
    IN /\ wallet' = IF r.res = "Ok" THEN r.wallet ELSE wallet
       /\ ret' = [ret EXCEPT ![t] = Returned("load", r.res)]
       /\ issued' = IF r.res = "Ok" THEN NoneIssued ELSE issued
       /\ UNCHANGED <<store, atPersist>>

\* reveal_next_address calling the wallet's next_unused_address: the last
\* revealed index is handed out again while nothing was received on it
reveal_next_address_unused(t, k) ==
    LET again == /\ wallet.revealed[k] # NoIndex
                 /\ ~IsUsed(wallet, k, wallet.revealed[k])
        r == IF again
             THEN [index |-> wallet.revealed[k], wallet |-> wallet]
             ELSE bdk_reveal_next_address(wallet, k)
    IN /\ wallet.open
       /\ wallet.revealed[k] < MaxIndex
       /\ wallet' = r.wallet
       /\ ret' = [ret EXCEPT ![t] =
                     [Returned("reveal_next_address", "Ok") EXCEPT
                         !.keychain = k, !.index = r.index]]
       /\ issued' = [issued EXCEPT ![k] = r.index]
       /\ UNCHANGED <<store, atPersist>>

\* Wallet::reveal_next_address
reveal_next_address(t, k) ==
    LET r == bdk_reveal_next_address(wallet, k)
    IN /\ wallet.open
       /\ wallet.revealed[k] < MaxIndex
       /\ wallet' = r.wallet
       /\ ret' = [ret EXCEPT ![t] =
                     [Returned("reveal_next_address", "Ok") EXCEPT
                         !.keychain = k, !.index = r.index]]
       /\ issued' = [issued EXCEPT ![k] = r.index]
       /\ UNCHANGED <<store, atPersist>>

\* apply_update with the Result of the bdk call dropped: always Ok
apply_update_discards_error(t, u) ==
    LET r == bdk_apply_update(wallet, u)
    IN /\ wallet.open
       /\ wallet' = r.wallet
       /\ ret' = [ret EXCEPT ![t] = Returned("apply_update", "Ok")]
       /\ UNCHANGED <<store, atPersist, issued>>

\* Wallet::apply_update, map_err(CannotConnectError::from)
apply_update(t, u) ==
    LET r == bdk_apply_update(wallet, u)
    IN /\ wallet.open
       /\ wallet' = r.wallet
       /\ ret' = [ret EXCEPT ![t] =
                     Returned("apply_update",
                              IF r.ok THEN "Ok" ELSE "CannotConnect")]
       /\ UNCHANGED <<store, atPersist, issued>>

\* balance with a conversion that leaves the immature bucket out
balance_forgets_immature(t) ==
    /\ wallet.open
    /\ ret' = [ret EXCEPT ![t] =
                  [Returned("balance", "Ok") EXCEPT
                      !.balance = [bdk_balance(wallet) EXCEPT !.immature = 0]]]
    /\ UNCHANGED <<wallet, store, atPersist, issued>>

\* Wallet::balance, Balance::from
balance(t) ==
    /\ wallet.open
    /\ ret' = [ret EXCEPT ![t] =
                  [Returned("balance", "Ok") EXCEPT
                      !.balance = bdk_balance(wallet)]]
    /\ UNCHANGED <<wallet, store, atPersist, issued>>

\* Wallet::list_unspent
list_unspent(t) ==
    /\ wallet.open
    /\ ret' = [ret EXCEPT ![t] =
                  [Returned("list_unspent", "Ok") EXCEPT
                      !.outs = bdk_list_unspent(wallet)]]
    /\ UNCHANGED <<wallet, store, atPersist, issued>>

\* list_output calling the wallet's list_unspent
list_output_unspent_only(t) ==
    /\ wallet.open
    /\ ret' = [ret EXCEPT ![t] =
                  [Returned("list_output", "Ok") EXCEPT
                      !.outs = bdk_list_unspent(wallet)]]
    /\ UNCHANGED <<wallet, store, atPersist, issued>>

\* Wallet::list_output
list_output(t) ==
    /\ wallet.open
    /\ ret' = [ret EXCEPT ![t] =
                  [Returned("list_output", "Ok") EXCEPT
                      !.outs = bdk_list_output(wallet)]]
    /\ UNCHANGED <<wallet, store, atPersist, issued>>

\* Wallet::sign, with the psbt's own lock held
sign(t, psbt) ==
    /\ wallet.open
    /\ psbt # NoPsbt
    /\ ret' = [ret EXCEPT ![t] =
                  [Returned("sign", "true") EXCEPT
                      !.psbt = bdk_sign(wallet, psbt)]]
    /\ UNCHANGED <<wallet, store, atPersist, issued>>

\* persist reporting true whenever the store call did not fail
persist_always_true(t, dbOk) ==
    LET r == bdk_persist(wallet, store, dbOk)
    IN /\ wallet.open
       /\ wallet' = r.wallet
       /\ store' = r.store
       /\ atPersist' = IF r.res = "true" THEN View(wallet) ELSE atPersist
       /\ UNCHANGED issued
       /\ ret' = [ret EXCEPT ![t] =
                     Returned("persist",
                              IF r.res = "false" THEN "true" ELSE r.res)]

\* persist taking the staged changes without handing them to the store
persist_drops_stage(t, dbOk) ==
    LET r == bdk_persist(wallet, store, dbOk)
    IN /\ wallet.open
       /\ wallet' = r.wallet
       /\ store' = store
       /\ atPersist' = IF r.res = "true" THEN View(wallet) ELSE atPersist
       /\ UNCHANGED issued
       /\ ret' = [ret EXCEPT ![t] = Returned("persist", r.res)]

\* Wallet::persist, map_err(SqliteError)
persist(t, dbOk) ==
    LET r == bdk_persist(wallet, store, dbOk)
    IN /\ wallet.open
       /\ wallet' = r.wallet
       /\ store' = r.store
       /\ atPersist' = IF r.res = "true" THEN View(wallet) ELSE atPersist
       /\ UNCHANGED issued
       /\ ret' = [ret EXCEPT ![t] = Returned("persist", r.res)]

\* finish with the add_utxos replay left out
TxBuilder_finish_without_utxos(t, b) ==
    /\ wallet.open
    /\ \E out \in finish([b EXCEPT !.utxos = <<>>], wallet) :
          /\ out.wallet.revealed["Internal"] <= MaxIndex
          /\ wallet' = out.wallet
          /\ ret' = [ret EXCEPT ![t] =
                        [Returned("finish", out.res) EXCEPT
                            !.psbt = out.psbt]]
    /\ UNCHANGED <<store, atPersist, issued>>

\* finish with the drain_to replay left out
TxBuilder_finish_without_drain_to(t, b) ==
    /\ wallet.open
    /\ \E out \in finish([b EXCEPT !.drain_to = FALSE], wallet) :
          /\ out.wallet.revealed["Internal"] <= MaxIndex
          /\ wallet' = out.wallet
          /\ ret' = [ret EXCEPT ![t] =
                        [Returned("finish", out.res) EXCEPT
                            !.psbt = out.psbt]]
    /\ UNCHANGED <<store, atPersist, issued>>

\* TxBuilder::finish
TxBuilder_finish(t, b) ==
    /\ wallet.open
    /\ \E out \in finish(b, wallet) :
          /\ out.wallet.revealed["Internal"] <= MaxIndex
          /\ wallet' = out.wallet
          /\ ret' = [ret EXCEPT ![t] =
                        [Returned("finish", out.res) EXCEPT
                            !.psbt = out.psbt]]
    /\ UNCHANGED <<store, atPersist, issued>>

\* BumpFeeTxBuilder::finish
BumpFeeTxBuilder_finish(t, b) ==
    /\ wallet.open
    /\ \E out \in bump_finish(b, wallet) :
          /\ out.wallet.revealed["Internal"] <= MaxIndex
          /\ wallet' = out.wallet
          /\ ret' = [ret EXCEPT ![t] =
                        [Returned("bump_finish", out.res) EXCEPT
                            !.psbt = out.psbt]]
    /\ UNCHANGED <<store, atPersist, issued>>

\* Wallet::calculate_fee
calculate_fee(t, tx) ==
    /\ wallet.open
    /\ LET r == bdk_calculate_fee(wallet, tx)
       IN ret' = [ret EXCEPT ![t] =
                     [Returned("calculate_fee", r.res) EXCEPT !.fee = r.fee]]
    /\ UNCHANGED <<wallet, store, atPersist, issued>>

----------------------------------------------------------------------------
(* Builders the callers use *)

PayAbs == fee_absolute(add_recipient(TxBuilder_new, 20), 4)
PayNoChange == fee_absolute(add_recipient(TxBuilder_new, 20), 8)

Builders ==
    {TxBuilder_new,
     add_recipient(TxBuilder_new, 20),
     add_recipient(TxBuilder_new, 3),
     add_recipient(TxBuilder_new, 200),
     PayAbs,
     manually_selected_only(add_utxo(PayAbs, "b")),
     manually_selected_only(add_utxos(PayAbs, <<"a", "b">>)),
     drain_to(PayAbs),
     drain_to(drain_wallet(TxBuilder_new))}

----------------------------------------------------------------------------
(* One caller: every operation run to completion *)

Init ==
    /\ wallet = NoWallet
    /\ store = EmptyStore
    /\ lock = NoThread /\ storeLock = NoThread /\ psbtLock = NoThread
    /\ pc = [t \in Threads |-> "idle"]
    /\ call = [t \in Threads |-> NoCall]
    /\ ret = [t \in Threads |-> NoRet]
    /\ atPersist = View(NoWallet)
    /\ issued = NoneIssued
    /\ overlap = [t \in Threads |-> {}]
    /\ builder = TxBuilder_new
    /\ bump_builder = NoBumpBuilder
    /\ receiver = TxBuilder_new
    /\ poisoned = {}

Idle ==
    UNCHANGED <<lock, storeLock, psbtLock, pc, call, overlap, held, poisoned>>

\* the calls of the one caller; U and B are the updates and the builders it
\* draws from
CallNew(D) == \E d \in D, dbOk \in BOOLEAN : new(Main, d, d, dbOk) /\ Idle
CallLoad(D) == \E d \in D, dbOk \in BOOLEAN : load(Main, d, d, dbOk) /\ Idle
CallReveal(K) == \E k \in K : reveal_next_address(Main, k) /\ Idle
CallApplyUpdate(U) == \E u \in U : apply_update(Main, u) /\ Idle
CallBalance == balance(Main) /\ Idle
CallListUnspent == list_unspent(Main) /\ Idle
CallListOutput == list_output(Main) /\ Idle
CallSign == sign(Main, ret[Main].psbt) /\ Idle
CallPersist == \E dbOk \in BOOLEAN : persist(Main, dbOk) /\ Idle
CallFinish(B) == \E b \in B : TxBuilder_finish(Main, b) /\ Idle

\* everything but the caller's builder values and the result of the call
Quiet ==
    UNCHANGED <<wallet, store, atPersist, issued, lock, storeLock, psbtLock,
                pc, call, overlap, poisoned>>

\* the number of fields a caller has set on a builder since TxBuilder::new,
\* and the most fields the model's caller sets
FieldsSet(b) ==
    Cardinality({f \in DOMAIN TxBuilder_new : b[f] # TxBuilder_new[f]})
MaxFieldsSet == 2

\* a TxBuilder mutator called on the builder the caller holds: the caller
\* goes on with the returned value and still sees the receiver
Mutate(name, result) ==
    /\ FieldsSet(result) <= MaxFieldsSet
    /\ builder' = result
    /\ receiver' = builder
    /\ ret' = [ret EXCEPT ![Main] = Returned(name, "Ok")]
    /\ UNCHANGED bump_builder
    /\ Quiet

\* a BumpFeeTxBuilder mutator called on the bump builder the caller holds
MutateBump(name, result) ==
    /\ bump_builder # NoBumpBuilder
    /\ bump_builder' = result
    /\ receiver' = bump_builder
    /\ ret' = [ret EXCEPT ![Main] = Returned(name, "Ok")]
    /\ UNCHANGED builder
    /\ Quiet

\* longest recipient list and longest utxo list a caller accumulates
MaxRecipients == 1
MaxUtxos == 1

\* BumpFeeTxBuilder::new called with a txid string and a fee rate
CallBumpNew(T, R) ==
    /\ \E txid \in T, r \in R :
          bump_builder' = BumpFeeTxBuilder_new(txid, r)
    /\ ret' = [ret EXCEPT ![Main] = Returned("BumpFeeTxBuilder::new", "Ok")]
    /\ UNCHANGED <<builder, receiver>>
    /\ Quiet

\* finish called on the builder the caller holds
CallFinishHeld == TxBuilder_finish(Main, builder) /\ Idle

\* SpecBuilder: one caller accumulating a builder, mutator by mutator, and
\* finishing it on a fresh wallet
NextBuilder ==
    \/ CallNew({"d1"})
    \/ /\ Len(builder.recipients) < MaxRecipients
       /\ Mutate("add_recipient", add_recipient(builder, 20))
    \/ \E l \in {<<>>, <<20>>} :
          Mutate("set_recipients", set_recipients(builder, l))
    \/ Mutate("add_unspendable", add_unspendable(builder, "b"))
    \/ Mutate("unspendable", unspendable(builder, <<>>))
    \/ /\ Len(builder.utxos) < MaxUtxos
       /\ Mutate("add_utxo", add_utxo(builder, "b"))
    \/ /\ Len(builder.utxos) < MaxUtxos
       /\ Mutate("add_utxos", add_utxos(builder, <<"b">>))
    \/ Mutate("change_policy", change_policy(builder, "ChangeAllowed"))
    \/ Mutate("do_not_spend_change", do_not_spend_change(builder))
    \/ Mutate("only_spend_change", only_spend_change(builder))
    \/ Mutate("manually_selected_only", manually_selected_only(builder))
    \/ Mutate("fee_rate", fee_rate(builder, 2))
    \/ Mutate("fee_absolute", fee_absolute(builder, 4))
    \/ Mutate("drain_wallet", drain_wallet(builder))
    \/ Mutate("drain_to", drain_to(builder))
    \/ Mutate("enable_rbf", enable_rbf(builder))
    \/ Mutate("enable_rbf_with_sequence",
              enable_rbf_with_sequence(builder, 1))
    \/ CallBumpNew({"c"}, {2})
    \/ MutateBump("BumpFee::enable_rbf", BumpFee_enable_rbf(bump_builder))
    \/ MutateBump("BumpFee::enable_rbf_with_sequence",
                  BumpFee_enable_rbf_with_sequence(bump_builder, 1))
    \/ CallFinishHeld

SpecBuilder == Init /\ [][NextBuilder]_vars

\* updates that touch neither keychain index beyond what their transaction
\* pays to
PlainUpdates == {u \in Updates : u.last_active = [k \in Keychains |-> NoIndex]}

\* SpecChain: a wallet fed by a chain source and queried
NextChain ==
    \/ CallNew({"d1"})
    \/ CallApplyUpdate(PlainUpdates)
    \/ CallBalance
    \/ CallListUnspent
    \/ CallListOutput
    \/ CallFinish({PayNoChange})
    \/ CallSign

SpecChain == Init /\ [][NextChain]_vars

\* SpecConnect: a wallet fed checkpoints, alone or with the mined coinbase
ConnectUpdates == {u \in PlainUpdates : u.tx \in {NoTx, "a"}}

NextConnect ==
    \/ CallNew({"d1"})
    \/ CallApplyUpdate(ConnectUpdates)
    \/ CallListOutput

SpecConnect == Init /\ [][NextConnect]_vars

\* single updates: the mined coinbase a at height 1, b and c seen in the
\* mempool, last active indices alone, a fork at height 1
MinedA ==
    Update([h \in Heights |-> IF h = 0 THEN "g" ELSE IF h = 1 THEN "m"
                              ELSE NoBlock],
           "a", [anchored |-> TRUE, seen |-> FALSE],
           [k \in Keychains |-> NoIndex])
SeenB ==
    Update(NoChainUpdate, "b", [anchored |-> FALSE, seen |-> TRUE],
           [k \in Keychains |-> NoIndex])

SeenC ==
    Update(NoChainUpdate, "c", [anchored |-> FALSE, seen |-> TRUE],
           [k \in Keychains |-> NoIndex])

ActiveOnly ==
    Update(NoChainUpdate, NoTx, NoPosition,
           [k \in Keychains |-> IF k = "External" THEN 1 ELSE NoIndex])

ForkAt1 ==
    Update([h \in Heights |-> IF h = 0 THEN "g" ELSE IF h = 1 THEN "f"
                              ELSE NoBlock],
           NoTx, NoPosition, [k \in Keychains |-> NoIndex])

\* SpecBuild: a funded wallet whose caller builds transactions
NextBuild ==
    \/ CallNew({"d1"})
    \/ CallApplyUpdate({MinedA, SeenB, SeenC})
    \/ CallReveal({"Internal"})
    \/ CallFinish(Builders)
    \/ CallPersist

SpecBuild == Init /\ [][NextBuild]_vars

\* the builders of a caller that pays 10, 24, 26 or a dust amount, with every
\* combination of explicit inputs, excluded outputs, change policy, manual
\* selection, fee and drain_wallet
SelectBuilders ==
    {[TxBuilder_new EXCEPT
         !.recipients = r, !.utxos = u, !.unspendable = x,
         !.change_policy = p, !.manually_selected_only = mo,
         !.fee_rate = fr, !.fee_absolute = fa, !.drain_wallet = dw] :
      r \in {<<10>>, <<24>>, <<26>>, <<3>>},
      u \in {<<>>, <<"b">>, <<"a">>},
      x \in {{}, {"b"}, {"c"}},
      p \in {"ChangeAllowed", "ChangeForbidden", "OnlyChange"},
      mo \in BOOLEAN, fr \in {NoFee, 2}, fa \in {NoFee, 4},
      dw \in BOOLEAN}

\* the builders the caller of SpecSelect finishes
Pay(amount) == fee_absolute(add_recipient(TxBuilder_new, amount), 4)
FinishCalls ==
    {Pay(10), Pay(24), Pay(26), Pay(3),
     fee_rate(Pay(24), 2),
     manually_selected_only(add_utxo(Pay(26), "b")),
     manually_selected_only(add_utxo(Pay(24), "b")),
     manually_selected_only(add_utxo(fee_rate(add_recipient(TxBuilder_new, 26), 2), "b")),
     add_utxo(Pay(26), "a"),
     only_spend_change(Pay(10)),
     do_not_spend_change(Pay(10)),
     add_unspendable(Pay(10), "c"),
     drain_wallet(Pay(10))}

\* the main chain up to the highest block
MinedTip ==
    Update([h \in Heights |-> IF h = 0 THEN "g" ELSE "m"],
           NoTx, NoPosition, [k \in Keychains |-> NoIndex])

\* SpecSelect: a funded wallet whose caller finishes these builders
NextSelect ==
    \/ CallNew({"d1"})
    \/ CallApplyUpdate({MinedA, MinedTip, SeenB, SeenC})
    \/ CallFinish(FinishCalls)

SpecSelect == Init /\ [][NextSelect]_vars

\* the transactions calculate_fee is asked about: the known ones and ones
\* made up by the caller
Transactions ==
    {TxOf(id) : id \in TxIds} \cup
    {[inputs |-> I, outputs |-> v, coinbase |-> FALSE,
      weight |-> BaseWeight + InputWeight * Cardinality(I) + OutputWeight] :
        I \in {{"b"}, {"a", "b"}, {"b", "x"}, {"c"}}, v \in {25, 40}}

\* the fee bumps asked for: of the transactions, of a well-formed id of no
\* transaction and of a string that is no id, at a rate equal to, just above
\* and far above the replaced transaction's
BumpBuilders ==
    {BumpFeeTxBuilder_new(txid, r) :
        txid \in Txids \cup {"not-hex"}, r \in {1, 2, 7}}
    \cup {BumpFee_enable_rbf(BumpFeeTxBuilder_new("c", 2)),
          BumpFee_enable_rbf_with_sequence(BumpFeeTxBuilder_new("c", 2),
                                           NoRbfFrom)}

\* SpecFees: a wallet that learns of its transactions, and a caller asking
\* for fees and for fee bumps
NextFees ==
    \/ CallNew({"d1"})
    \/ CallApplyUpdate(
          {MinedA, MinedTip, SeenB, SeenC,
           Update(NoChainUpdate, "b", [anchored |-> TRUE, seen |-> FALSE],
                  [k \in Keychains |-> NoIndex]),
           Update(NoChainUpdate, "c", [anchored |-> TRUE, seen |-> FALSE],
                  [k \in Keychains |-> NoIndex]),
           Update(NoChainUpdate, "d", [anchored |-> FALSE, seen |-> TRUE],
                  [k \in Keychains |-> NoIndex])})
    \/ \E b \in BumpBuilders : BumpFeeTxBuilder_finish(Main, b) /\ Idle
    \/ \E tx \in Transactions : calculate_fee(Main, tx) /\ Idle

SpecFees == Init /\ [][NextFees]_vars

\* SpecStore: a wallet that is created, changed, persisted and loaded again
StoreUpdates == {MinedA, ForkAt1, SeenB}

NextStore ==
    \/ CallNew({"d1"})
    \/ CallLoad(Descriptors)
    \/ CallReveal({"External"})
    \/ CallApplyUpdate(StoreUpdates)
    \/ CallFinish({PayAbs})
    \/ CallPersist

SpecStore == Init /\ [][NextStore]_vars

----------------------------------------------------------------------------
(* Threads: every operation as the steps of the thread that runs it.  An    *)
(* operation takes its locks one by one (a thread waits while a lock is     *)
(* held), runs the bdk call inside them, and drops every guard on return.   *)

Call(name, a) == [op |-> name, arg |-> a]

\* the lock an operation asks for first: persist and new take the
\* connection's store (get_store), sign the psbt, all others the wallet
FirstLock(name) ==
    CASE name \in {"new", "persist"} -> "get_store"
      [] name = "sign" -> "psbt_lock"
      [] OTHER -> "get_wallet"

\* the highest index of keychain k an update may reveal
UpdateFloor(u, k) ==
    Max(u.last_active[k],
        IF u.tx # NoTx /\ TxData[u.tx].keychain = k
        THEN TxData[u.tx].index ELSE NoIndex)

\* the calls under way, other than t's, that may advance the index of k
Advancing(t, k) ==
    {u \in Threads \ {t} :
        \/ call[u].op = "reveal_next_address" /\ call[u].arg = k
        \/ call[u].op \in {"finish", "bump_finish"} /\ k = "Internal"}

Floor(t, k) ==
    LET floors == {UpdateFloor(call[u].arg, k) :
                      u \in {x \in Threads \ {t} : call[x].op = "apply_update"}}
    IN IF floors = {} THEN wallet.revealed[k]
       ELSE Max(wallet.revealed[k],
                CHOOSE f \in floors : \A g \in floors : f >= g)

\* the bound on the derivation indices: a call starts only if the indices
\* stay within MaxIndex whatever the order the calls under way complete in
Headroom(t, c, k) ==
    LET own == IF \/ c.op = "reveal_next_address" /\ c.arg = k
                  \/ c.op \in {"finish", "bump_finish"} /\ k = "Internal"
               THEN 1 ELSE 0
        floor == IF c.op = "apply_update"
                 THEN Max(Floor(t, k), UpdateFloor(c.arg, k))
                 ELSE Floor(t, k)
    IN floor + Cardinality(Advancing(t, k)) + own <= MaxIndex

\* a caller starts an operation on the wallet handle it holds
Begin(t, c) ==
    /\ pc[t] = "idle"
    /\ c.op # "new" => wallet.open
    /\ c.op = "sign" => c.arg # NoPsbt
    /\ \A k \in Keychains : Headroom(t, c, k)
    /\ pc' = [pc EXCEPT ![t] = FirstLock(c.op)]
    /\ call' = [call EXCEPT ![t] = c]
    /\ ret' = [ret EXCEPT ![t] = NoRet]
    /\ overlap' = [overlap EXCEPT ![t] = {}]
    /\ UNCHANGED <<wallet, store, lock, storeLock, psbtLock, atPersist,
                   issued, held, poisoned>>

\* Connection::get_store: lock the connection's mutex; on a poisoned mutex
\* the expect panics
get_store(t) ==
    /\ pc[t] = "get_store"
    /\ storeLock = NoThread
    /\ IF "store" \in poisoned
       THEN /\ pc' = [pc EXCEPT ![t] = "idle"]
            /\ call' = [call EXCEPT ![t] = NoCall]
            /\ ret' = [ret EXCEPT ![t] = Returned(call[t].op, "panic at lock")]
            /\ UNCHANGED storeLock
       ELSE /\ storeLock' = t
            /\ pc' = [pc EXCEPT ![t] = IF call[t].op = "new" THEN "run"
                                       ELSE "get_wallet"]
            /\ UNCHANGED <<call, ret>>
    /\ UNCHANGED <<wallet, store, lock, psbtLock, atPersist, issued, overlap,
                   held, poisoned>>

\* psbt.0.lock().unwrap() in sign; on a poisoned mutex the unwrap panics
psbt_lock(t) ==
    /\ pc[t] = "psbt_lock"
    /\ psbtLock = NoThread
    /\ IF "psbt" \in poisoned
       THEN /\ pc' = [pc EXCEPT ![t] = "idle"]
            /\ call' = [call EXCEPT ![t] = NoCall]
            /\ ret' = [ret EXCEPT ![t] = Returned(call[t].op, "panic at lock")]
            /\ UNCHANGED psbtLock
       ELSE /\ psbtLock' = t
            /\ pc' = [pc EXCEPT ![t] = "get_wallet"]
            /\ UNCHANGED <<call, ret>>
    /\ UNCHANGED <<wallet, store, lock, storeLock, atPersist, issued, overlap,
                   held, poisoned>>

\* get_wallet as a plain borrow: no mutex is taken
get_wallet_unlocked(t) ==
    /\ pc[t] = "get_wallet"
    /\ lock' = t
    /\ pc' = [pc EXCEPT ![t] = "run"]
    /\ UNCHANGED <<wallet, store, storeLock, psbtLock, call, ret, atPersist,
                   issued, overlap, held, poisoned>>

\* Wallet::get_wallet: inner_mutex.lock().expect("wallet").  On a poisoned
\* mutex the expect panics: the thread unwinds, dropping the guards sign and
\* persist took before, whose mutexes are poisoned in turn
get_wallet(t) ==
    /\ pc[t] = "get_wallet"
    /\ lock = NoThread
    /\ IF "wallet" \in poisoned
       THEN /\ pc' = [pc EXCEPT ![t] = "idle"]
            /\ call' = [call EXCEPT ![t] = NoCall]
            /\ ret' = [ret EXCEPT ![t] = Returned(call[t].op, "panic at lock")]
            /\ storeLock' = IF storeLock = t THEN NoThread ELSE storeLock
            /\ psbtLock' = IF psbtLock = t THEN NoThread ELSE psbtLock
            /\ poisoned' = poisoned
                              \cup (IF storeLock = t THEN {"store"} ELSE {})
                              \cup (IF psbtLock = t THEN {"psbt"} ELSE {})
            /\ UNCHANGED lock
       ELSE /\ lock' = t
            /\ pc' = [pc EXCEPT ![t] = "run"]
            /\ UNCHANGED <<storeLock, psbtLock, call, ret, poisoned>>
    /\ UNCHANGED <<wallet, store, atPersist, issued, overlap, held>>

\* the thread is inside the wallet's critical section
InWallet(t) == pc[t] = "run" /\ call[t].op # "new"

\* the bdk call of the operation t runs
Body(t) ==
    LET c == call[t]
    IN \/ c.op = "new" /\ new(t, c.arg.d, c.arg.d, c.arg.dbOk)
       \/ c.op = "reveal_next_address" /\ reveal_next_address(t, c.arg)
       \/ c.op = "apply_update" /\ apply_update(t, c.arg)
       \/ c.op = "balance" /\ balance(t)
       \/ c.op = "list_unspent" /\ list_unspent(t)
       \/ c.op = "sign" /\ sign(t, c.arg)
       \/ c.op = "persist" /\ persist(t, c.arg)
       \/ c.op = "finish" /\ TxBuilder_finish(t, c.arg)
       \/ c.op = "bump_finish" /\ BumpFeeTxBuilder_finish(t, c.arg)
       \/ c.op = "calculate_fee" /\ calculate_fee(t, c.arg)

\* Return without the drop of the wallet guard
Return_keeps_wallet_lock(t) ==
    /\ pc[t] = "run"
    /\ Body(t)
    /\ lock' = lock
    /\ storeLock' = IF storeLock = t THEN NoThread ELSE storeLock
    /\ psbtLock' = IF psbtLock = t THEN NoThread ELSE psbtLock
    /\ pc' = [pc EXCEPT ![t] = "idle"]
    /\ call' = [call EXCEPT ![t] = NoCall]
    /\ overlap' =
          IF call[t].op = "finish" /\ ret'[t].res = "Ok"
          THEN [u \in Threads |->
                   IF u # t /\ call[u].op = "finish"
                   THEN overlap[u] \cup {ret'[t].psbt.inputs}
                   ELSE overlap[u]]
          ELSE overlap
    /\ poisoned' =
          IF ret'[t].res = "panic"
          THEN poisoned \cup (IF lock = t THEN {"wallet"} ELSE {})
                        \cup (IF storeLock = t THEN {"store"} ELSE {})
                        \cup (IF psbtLock = t THEN {"psbt"} ELSE {})
          ELSE poisoned
    /\ UNCHANGED held

\* Return without the drop of the psbt guard
Return_keeps_psbt_lock(t) ==
    /\ pc[t] = "run"
    /\ Body(t)
    /\ lock' = IF lock = t THEN NoThread ELSE lock
    /\ storeLock' = IF storeLock = t THEN NoThread ELSE storeLock
    /\ psbtLock' = psbtLock
    /\ pc' = [pc EXCEPT ![t] = "idle"]
    /\ call' = [call EXCEPT ![t] = NoCall]
    /\ overlap' =
          IF call[t].op = "finish" /\ ret'[t].res = "Ok"
          THEN [u \in Threads |->
                   IF u # t /\ call[u].op = "finish"
                   THEN overlap[u] \cup {ret'[t].psbt.inputs}
                   ELSE overlap[u]]
          ELSE overlap
    /\ poisoned' =
          IF ret'[t].res = "panic"
          THEN poisoned \cup (IF lock = t THEN {"wallet"} ELSE {})
                        \cup (IF storeLock = t THEN {"store"} ELSE {})
                        \cup (IF psbtLock = t THEN {"psbt"} ELSE {})
          ELSE poisoned
    /\ UNCHANGED held

\* the operation runs inside its locks and returns: the guards are dropped.
\* A panic of the bdk call drops them while unwinding, which poisons their
\* mutexes
Return(t) ==
    /\ pc[t] = "run"
    /\ Body(t)
    /\ lock' = IF lock = t THEN NoThread ELSE lock
    /\ storeLock' = IF storeLock = t THEN NoThread ELSE storeLock
    /\ psbtLock' = IF psbtLock = t THEN NoThread ELSE psbtLock
    /\ pc' = [pc EXCEPT ![t] = "idle"]
    /\ call' = [call EXCEPT ![t] = NoCall]
    /\ overlap' =
          IF call[t].op = "finish" /\ ret'[t].res = "Ok"
          THEN [u \in Threads |->
                   IF u # t /\ call[u].op = "finish"
                   THEN overlap[u] \cup {ret'[t].psbt.inputs}
                   ELSE overlap[u]]
          ELSE overlap
    /\ poisoned' =
          IF ret'[t].res = "panic"
          THEN poisoned \cup (IF lock = t THEN {"wallet"} ELSE {})
                        \cup (IF storeLock = t THEN {"store"} ELSE {})
                        \cup (IF psbtLock = t THEN {"psbt"} ELSE {})
          ELSE poisoned
    /\ UNCHANGED held

SpendA ==
    manually_selected_only(
        add_utxo(fee_absolute(add_recipient(TxBuilder_new, 45), 4), "a"))
SpendB == manually_selected_only(add_utxo(PayNoChange, "b"))

\* SpecThreads: two callers of one wallet handle; sign takes the psbt the
\* thread built last
ThreadCalls ==
    {Call("new", [d |-> "d1", dbOk |-> TRUE]),
     Call("reveal_next_address", "External"),
     Call("apply_update", MinedA), Call("apply_update", SeenB),
     Call("balance", "none"), Call("list_unspent", "none"),
     Call("persist", TRUE),
     Call("finish", SpendA), Call("finish", SpendB),
     Call("finish", PayNoChange)}

NextThreads ==
    \E t \in Threads :
        \/ \E c \in ThreadCalls : Begin(t, c)
        \/ Begin(t, Call("sign", ret[t].psbt))
        \/ get_store(t)
        \/ psbt_lock(t)
        \/ get_wallet(t)
        \/ Return(t)

SpecThreads == Init /\ [][NextThreads]_vars

\* SpecLocks: two callers whose operations also leave by their error exits
\* (finish of SpendB before b is known fails at add_utxos, the fee bump
\* fails in build_fee_bump) and by a panic (the recipients of the second
\* finish add up to more than the largest Amount)
NextLocks ==
    \E t \in Threads :
        \/ \E c \in {Call("new", [d |-> "d1", dbOk |-> TRUE]),
                     Call("apply_update", SeenB),
                     Call("balance", "none"),
                     Call("persist", TRUE),
                     Call("finish", SpendB),
                     Call("finish",
                          add_recipient(add_recipient(TxBuilder_new,
                                                      MaxAmount), MaxAmount)),
                     Call("bump_finish", BumpFeeTxBuilder_new("z", 2))} :
              Begin(t, c)
        \/ Begin(t, Call("sign", ret[t].psbt))
        \/ get_store(t)
        \/ psbt_lock(t)
        \/ get_wallet(t)
        \/ Return(t)

SpecLocks == Init /\ [][NextLocks]_vars

\* SpecLocks under fair scheduling: a thread that can return does, and a
\* thread waiting for a mutex that is free again and again gets it
FairLocks ==
    /\ SpecLocks
    /\ \A t \in Threads :
          /\ WF_vars(Return(t))
          /\ SF_vars(get_store(t))
          /\ SF_vars(psbt_lock(t))
          /\ SF_vars(get_wallet(t))

\* SpecReveal: two callers revealing addresses of both keychains while
\* updates arrive and transactions with change are built
RevealCalls ==
    {Call("new", [d |-> "d1", dbOk |-> TRUE]),
     Call("reveal_next_address", "External"),
     Call("reveal_next_address", "Internal"),
     Call("apply_update", SeenB), Call("apply_update", ActiveOnly),
     Call("finish", PayAbs)}

NextReveal ==
    \E t \in Threads :
        \/ \E c \in RevealCalls : Begin(t, c)
        \/ get_store(t)
        \/ get_wallet(t)
        \/ Return(t)

SpecReveal == Init /\ [][NextReveal]_vars

----------------------------------------------------------------------------
(* Claims on the wallet lock, checked under SpecThreads *)

Outpoints(los) == {lo.outpoint : lo \in los}

\* C1: whatever operations the threads invoke on the wallet, at most one
\* thread is inside the wallet's critical section, that thread owns the
\* mutex, and every step that changes the wallet or returns the result of a
\* wallet operation is taken by the one thread inside it
C1_OneCriticalSection ==
    /\ [](/\ Cardinality({t \in Threads : InWallet(t)}) <= 1
          /\ \A t \in Threads : InWallet(t) => lock = t)
    /\ [][(\/ wallet.open /\ wallet' # wallet
           \/ \E t \in Threads :
                 ret'[t] # ret[t] /\ call[t].op \notin {"none", "new"})
          => \E t \in Threads :
                /\ InWallet(t) /\ lock = t /\ pc'[t] = "idle"
                /\ \A u \in Threads \ {t} : ~InWallet(u) /\ ret'[u] = ret[u]]_vars

\* one thread is inside the critical section while the other waits for it
C1_Witness ==
    \E t, u \in Threads :
        /\ InWallet(t) /\ lock = t /\ call[t].op = "apply_update"
        /\ pc[u] = "get_wallet" /\ call[u].op = "finish"

\* thread t returns from finish in this step
FinishReturns(t) ==
    pc[t] = "run" /\ call[t].op = "finish" /\ pc'[t] = "idle"

----------------------------------------------------------------------------
(* Claims on finish and reveal_next_address, checked under SpecBuild,    *)
(* SpecReveal and SpecThreads *)

\* C3 as claimed: finish leaves the Output set, the revealed indices and the
\* staged changes as they were, whatever the builder and the result
C3_AsClaimed ==
    [][\A b \in Builders :
          ret'[Main].op = "finish" /\ TxBuilder_finish(Main, b)
          => /\ bdk_list_output(wallet') = bdk_list_output(wallet)
             /\ wallet'.revealed = wallet.revealed
             /\ wallet'.stage = wallet.stage]_vars

\* C3: finish never changes the Output set, the chain or the external
\* index, and changes nothing at all when it fails with UnknownUtxo or when
\* the builder drains to a given script; when it needs a change address it
\* may reveal the next internal index (one step at most) and mark it used,
\* and a reveal is staged for the next persist
C3_FinishFrame ==
    [][\A b \in Builders :
          ret'[Main].op = "finish" /\ TxBuilder_finish(Main, b)
          => /\ bdk_list_output(wallet') = bdk_list_output(wallet)
             /\ wallet'.chain = wallet.chain
             /\ wallet'.txs = wallet.txs
             /\ wallet'.revealed["External"] = wallet.revealed["External"]
             /\ wallet'.revealed["Internal"] \in
                   {wallet.revealed["Internal"],
                    wallet.revealed["Internal"] + 1}
             /\ wallet'.stage =
                   Merge(wallet.stage,
                         [EmptyChangeSet EXCEPT !.revealed["Internal"] =
                             IF wallet'.revealed["Internal"]
                                   > wallet.revealed["Internal"]
                             THEN wallet'.revealed["Internal"]
                             ELSE NoIndex])
             /\ (b.drain_to \/ ret'[Main].res = "UnknownUtxo")
                   => wallet' = wallet]_vars

\* a finish that built a change output revealed a new internal index and
\* left the reveal in the stage
C3_Witness ==
    /\ ret[Main].op = "finish" /\ ret[Main].res = "Ok"
    /\ ret[Main].psbt.drain = "change"
    /\ wallet.revealed["Internal"] = 1
    /\ wallet.stage.revealed["Internal"] = 1
    /\ 1 \in wallet.marked

\* thread t returns from reveal_next_address for keychain k in this step
RevealReturns(t, k) ==
    /\ pc[t] = "run" /\ pc'[t] = "idle"
    /\ call[t].op = "reveal_next_address" /\ call[t].arg = k

\* C4 as claimed: in the order the calls take the wallet lock, each call for
\* keychain k returns the index after the one the previous call for k
\* returned, and leaves the other keychain's index alone
C4_AsClaimed ==
    [][\A t \in Threads, k \in Keychains :
          RevealReturns(t, k)
          => /\ issued[k] # NoIndex => ret'[t].index = issued[k] + 1
             /\ \A o \in Keychains \ {k} :
                   wallet'.revealed[o] = wallet.revealed[o]]_vars

\* C4: for a keychain with a ranged descriptor, in the order the calls take
\* the wallet lock each call returns the index after the highest index
\* revealed so far by any operation (reveal_next_address, apply_update, the
\* change address of finish): the indices are distinct and strictly
\* increasing, never one revealed before, and consecutive exactly when no
\* other operation revealed an index of that keychain in between; the other
\* keychain's index is left alone
C4_RevealNextAddress ==
    [][\A t \in Threads, k \in Keychains :
          RevealReturns(t, k)
          => /\ ret'[t].keychain = k
             /\ ret'[t].index = wallet.revealed[k] + 1
             /\ wallet'.revealed[k] = ret'[t].index
             /\ ret'[t].index > issued[k]
             /\ issued[k] # NoIndex =>
                   (ret'[t].index = issued[k] + 1
                       <=> wallet.revealed[k] = issued[k])
             /\ \A o \in Keychains \ {k} :
                   /\ wallet'.revealed[o] = wallet.revealed[o]
                   /\ issued'[o] = issued[o]]_vars

\* a call for the external keychain returned 0, an update then revealed
\* index 1, and the next call for the keychain is inside the wallet lock
C4_Witness ==
    \E t \in Threads :
        /\ InWallet(t) /\ call[t] = Call("reveal_next_address", "External")
        /\ issued["External"] = 0
        /\ wallet.revealed["External"] = 1

\* the explicit inputs of builder b pay for its recipients and its fee
Sufficient(b) ==
    /\ b.fee_absolute # NoFee
    /\ \A i \in DOMAIN b.recipients : b.recipients[i] >= DustLimit
    /\ b.recipients # <<>>
    /\ SumValues(RangeOf(b.utxos))
          >= SumSeq(b.recipients) + b.fee_absolute

\* C5: a finish call of a builder with manually selected explicit UTXOs that
\* are unspent in the wallet and pay for its recipients and fee succeeds and
\* spends exactly those UTXOs, whatever finish calls ran concurrently, with
\* explicit sets disjoint from its own or overlapping them
C5_ManualFinishSucceeds ==
    [][\A t \in Threads :
          /\ FinishReturns(t)
          /\ call[t].arg.manually_selected_only
          /\ KnownUtxos(wallet, RangeOf(call[t].arg.utxos))
          /\ Sufficient(call[t].arg)
          => /\ ret'[t].res = "Ok"
             /\ ret'[t].psbt.inputs = RangeOf(call[t].arg.utxos)]_vars

\* a manually selected finish succeeded after two finish calls that ran
\* concurrently with it had succeeded, one on a disjoint explicit set and
\* one on an overlapping set
C5_Witness ==
    \E t \in Threads :
        /\ ret[t].op = "finish" /\ ret[t].res = "Ok"
        /\ ret[t].psbt.inputs = {"b"}
        /\ {{"a"}, {"b"}} \subseteq overlap[t]

----------------------------------------------------------------------------
(* Claims on persist and load, checked under SpecStore *)

\* C6: a persist that follows a successful persist with no operation in
\* between returns false and leaves the store as it is; persist returns true
\* only when the wallet held changes made since the last successful persist,
\* and then they are written: the store holds the wallet as it is and no
\* change is left to write; a failed persist writes nothing and keeps the
\* changes for the retry
C6_PersistIdempotent ==
    [][ret'[Main].op = "persist"
       => /\ ret[Main].op = "persist" /\ ret[Main].res \in {"true", "false"}
             => ret'[Main].res = "false" /\ store' = store /\ wallet' = wallet
          /\ ret'[Main].res = "true"
             => /\ wallet.stage # EmptyChangeSet
                /\ wallet'.stage = EmptyChangeSet
                /\ View(bdk_load(from_sqlite(store'))) = View(wallet)
          /\ ret'[Main].res \in {"false", "SqliteError"}
             => store' = store /\ wallet' = wallet]_vars

\* the persist that followed a persist which wrote a revealed address
\* returned false
C6_Witness ==
    /\ ret[Main].op = "persist" /\ ret[Main].res = "false"
    /\ atPersist.revealed["External"] = 0
    /\ View(wallet) = atPersist
    /\ from_sqlite(store).revealed["External"] = 0

\* C7: a wallet loaded from the store with the descriptors it was created
\* with has the Output set, the keychain indices and the descriptors of the
\* wallet at the last successful persist (or at its creation if none
\* followed); what was changed afterwards and never persisted is not in it
C7_RoundTrip ==
    [][ret'[Main].op = "load" /\ ret'[Main].res = "Ok"
       => /\ View(wallet') = atPersist
          /\ wallet'.stage = EmptyChangeSet
          /\ store' = store]_vars

\* a wallet with a received output, a change address and a reorganised
\* chain was persisted and loaded again
C7_Witness ==
    /\ ret[Main].op = "load" /\ ret[Main].res = "Ok"
    /\ View(wallet) = atPersist
    /\ wallet.revealed = [k \in Keychains |-> IF k = "External" THEN 1 ELSE 0]
    /\ wallet.chain[1] = "f"
    /\ \E lo \in bdk_list_output(wallet) : lo.outpoint = "b"

----------------------------------------------------------------------------
(* Claims on balance, apply_update and list_output, checked under         *)
(* SpecChain and SpecConnect *)

\* C8: whenever balance() has returned, its four buckets are non-negative
\* and add up to the value of the outputs list_unspent() returns in that
\* state.
C8_BalanceIsSumOfUnspent ==
    ret[Main].op = "balance" =>
        LET bal == ret[Main].balance
        IN /\ bal.immature >= 0 /\ bal.trusted_pending >= 0
           /\ bal.untrusted_pending >= 0 /\ bal.confirmed >= 0
           /\ bal.immature + bal.trusted_pending + bal.untrusted_pending
                 + bal.confirmed
              = SumOutputs(bdk_list_unspent(wallet))

\* a balance with an immature coinbase and a pending change output, while b
\* is spent
C8_Witness ==
    /\ ret[Main].op = "balance"
    /\ ret[Main].balance.immature > 0
    /\ ret[Main].balance.trusted_pending > 0
    /\ IsSpent(wallet, "b")

HasChain(u) == u.chain # NoChainUpdate

\* the update's lowest checkpoint (its base) is a block of the wallet's chain
BaseInChain(w, u) ==
    LET base == CHOOSE h \in Heights :
                    /\ u.chain[h] # NoBlock
                    /\ \A g \in Heights : u.chain[g] # NoBlock => h <= g
    IN w.chain[base] = u.chain[base]

\* no checkpoint of the update is a block of the wallet's chain
NoAgreement(w, u) ==
    \A h \in Heights : u.chain[h] = NoBlock \/ u.chain[h] # w.chain[h]

----------------------------------------------------------------------------
(* Claims on the builder values, checked under SpecBuilder *)

\* the field each TxBuilder mutator sets
Target(name) ==
    CASE name \in {"add_recipient", "set_recipients"} -> "recipients"
      [] name \in {"add_unspendable", "unspendable"} -> "unspendable"
      [] name \in {"add_utxo", "add_utxos"} -> "utxos"
      [] name \in {"change_policy", "do_not_spend_change",
                   "only_spend_change"} -> "change_policy"
      [] name \in {"enable_rbf", "enable_rbf_with_sequence"} -> "rbf"
      [] OTHER -> name

TxBuilderMutators ==
    {"add_recipient", "set_recipients", "add_unspendable", "unspendable",
     "add_utxo", "add_utxos", "change_policy", "do_not_spend_change",
     "only_spend_change", "manually_selected_only", "fee_rate",
     "fee_absolute", "drain_wallet", "drain_to", "enable_rbf",
     "enable_rbf_with_sequence"}

BumpFeeMutators ==
    {"BumpFee::enable_rbf", "BumpFee::enable_rbf_with_sequence"}

\* C11: every TxBuilder mutator returns a new value that differs from the
\* receiver at most in the one field the mutator targets, and the receiver
\* is as it was before the call; the same holds for the two mutators of
\* BumpFeeTxBuilder (field rbf); a mutator of one builder leaves the other
\* builder alone, and finish changes no builder.
C11_MutatorsReturnNewValue ==
    [][LET op == ret'[Main].op
       IN /\ op \in TxBuilderMutators =>
                /\ receiver' = builder
                /\ \A f \in DOMAIN builder :
                      f # Target(op) => builder'[f] = builder[f]
                /\ bump_builder' = bump_builder
          /\ op \in BumpFeeMutators =>
                /\ receiver' = bump_builder
                /\ bump_builder'.txid = bump_builder.txid
                /\ bump_builder'.fee_rate = bump_builder.fee_rate
                /\ builder' = builder
          /\ op = "finish" => UNCHANGED <<builder, bump_builder, receiver>>
      ]_vars

\* a fee_absolute call on a builder that carries a fee rate returned a
\* builder with both, next to a bump builder whose rbf was set
C11_Witness ==
    /\ ret[Main].op = "fee_absolute"
    /\ receiver.fee_rate = 2 /\ receiver.fee_absolute = NoFee
    /\ builder = fee_absolute(receiver, 4)
    /\ bump_builder = BumpFee_enable_rbf(BumpFeeTxBuilder_new("c", 2))

\* C12, as stated: when finish is called the builder never carries both a
\* fee rate and an absolute fee.
C12_AsClaimed ==
    ret[Main].op = "finish" =>
        ~(builder.fee_rate # NoFee /\ builder.fee_absolute # NoFee)

----------------------------------------------------------------------------
(* Claims on what finish builds, checked under SpecSelect for every builder *)
(* of SelectBuilders on every wallet the specification reaches              *)

Explicit(b) == RangeOf(b.utxos)

\* the outputs the builder lets finish spend: the explicit inclusion set and,
\* unless manually_selected_only, what automatic selection may add
Spendable(w, b) ==
    Explicit(b) \cup (IF b.manually_selected_only THEN {}
                      ELSE MaySpend(w, Params(b)))

\* a builder finish can build from: recipients of at least the dust limit
\* and explicit inputs that are unspent outputs of the wallet
WellFormed(w, b) ==
    /\ b.recipients # <<>>
    /\ \A i \in DOMAIN b.recipients : b.recipients[i] >= DustLimit
    /\ KnownUtxos(w, Explicit(b))

\* what the inputs leave after the recipients and the absolute fee
LeftOver(b, inputs) ==
    SumValues(inputs) - SumSeq(b.recipients) - b.fee_absolute

\* C13, as stated: with an absolute fee F and available funds of at least
\* R+F, finish succeeds and the fee of the built transaction (inputs minus
\* outputs) is F exactly, whatever the change amount.
C13_AsClaimed ==
    wallet.open =>
        \A b \in SelectBuilders :
            (/\ b.fee_absolute # NoFee
             /\ WellFormed(wallet, b)
             /\ SumValues(Spendable(wallet, b))
                    >= SumSeq(b.recipients) + b.fee_absolute)
            => \A out \in finish(b, wallet) :
                  /\ out.res = "Ok"
                  /\ out.psbt.fee = b.fee_absolute

\* C13, amended: with an absolute fee F, recipients of at least the dust
\* limit totalling R, explicit inputs that are unspent outputs of the wallet,
\* and outputs that the builder may spend worth at least R+F, finish
\* succeeds; the fee is inputs minus outputs; it is F exactly when what is
\* left over is zero or at least the dust limit (and then all of it is the
\* change), and F plus what is left over when that is below the dust limit
\* (no change output).
C13_AbsoluteFee ==
    wallet.open =>
        \A b \in SelectBuilders :
            (/\ b.fee_absolute # NoFee
             /\ WellFormed(wallet, b)
             /\ SumValues(Spendable(wallet, b))
                    >= SumSeq(b.recipients) + b.fee_absolute)
            => \A out \in finish(b, wallet) :
                  LET left == LeftOver(b, out.psbt.inputs)
                  IN /\ out.res = "Ok"
                     /\ out.psbt.fee = SumValues(out.psbt.inputs)
                                         - out.psbt.outgoing - out.psbt.change
                     /\ out.psbt.outgoing = SumSeq(b.recipients)
                     /\ left >= 0
                     /\ left >= DustLimit =>
                            /\ out.psbt.fee = b.fee_absolute
                            /\ out.psbt.change = left
                     /\ left < DustLimit =>
                            /\ out.psbt.fee = b.fee_absolute + left
                            /\ out.psbt.change = 0

\* finish built a transaction paying 24 with an absolute fee of 4 from the
\* output of 30: the 2 left over went to the fee
C13_Witness ==
    /\ ret[Main].op = "finish" /\ ret[Main].res = "Ok"
    /\ ret[Main].psbt.inputs = {"b"}
    /\ ret[Main].psbt.outgoing = 24
    /\ ret[Main].psbt.fee = 6
    /\ ret[Main].psbt.change = 0

\* what the transaction over the explicit inputs needs on top of them
\* (negative: they do not cover recipients and fee)
ExplicitRemaining(b) == Remaining(Params(b), Explicit(b))

C15_AutomaticSelection ==
    wallet.open =>
        \A b \in SelectBuilders :
            ~b.manually_selected_only =>
                \A out \in finish(b, wallet) :
                    out.res = "Ok" =>
                        /\ Explicit(b) \subseteq out.psbt.inputs
                        /\ \A o \in out.psbt.inputs \ Explicit(b) :
                              /\ o \in Outpoints(bdk_list_unspent(wallet))
                              /\ o \notin b.unspendable
                              /\ b.change_policy = "ChangeForbidden" =>
                                     TxData[o].keychain = "External"
                              /\ b.change_policy = "OnlyChange" =>
                                     TxData[o].keychain = "Internal"

\* an OnlyChange finish spent the internal output c while the external
\* coinbase output a was unspent
C15_Witness ==
    /\ ret[Main].op = "finish" /\ ret[Main].res = "Ok"
    /\ ret[Main].psbt.inputs = {"c"}
    /\ ret[Main].psbt.outgoing = 10
    /\ Outpoints(bdk_list_unspent(wallet)) = {"a", "c"}

----------------------------------------------------------------------------
(* C16: BumpFeeTxBuilder.finish *)

\* what the transaction to replace paid, and the rate a replacement must
\* reach: its own rate plus the minimum increment
OrigFee(id) == SumValues(TxData[id].spends) - TxData[id].value - TxData[id].sent
Required(id) == OrigFee(id) \div TxOf(id).weight + DefaultFeeRate

\* the id names a transaction of the wallet that signals replaceability and
\* spends outputs the wallet knows, and the builder overrides no sequence
\* number that rules replacement out
Resolves(w, b) ==
    /\ b.txid \in Txids /\ Canonical(w, b.txid)
    /\ TxData[b.txid].rbf /\ TxData[b.txid].spends # {}
    /\ ~TxData[b.txid].foreign
    /\ \A o \in TxData[b.txid].spends : Canonical(w, o)
    /\ ~(b.rbf.kind = "Value" /\ b.rbf.nsequence >= NoRbfFrom)

Refused(w, out, e) == out.res = e /\ out.psbt = NoPsbt /\ out.wallet = w

----------------------------------------------------------------------------
(* C17: calculate_fee *)

----------------------------------------------------------------------------
(* C18: failures are typed errors, never panics *)

\* C18 as the claim states it, for the lock acquisitions: under no
\* interleaving and after no earlier failure does an operation end in a
\* panic at a lock acquisition of get_wallet, sign or get_store.
C18_AsClaimed ==
    \A t \in Threads : ret[t].res # "panic at lock"

----------------------------------------------------------------------------
(* C19: the wallet lock is released on every exit path *)

----------------------------------------------------------------------------
(* C20: deadlock freedom *)

\* C20: a thread holding the wallet lock waits for no lock, and a thread
\* waiting for the store or the psbt lock holds no lock at all; whenever an
\* operation is under way some thread can take a step; and every operation
\* that was started eventually ends.
C20_NoDeadlock ==
    /\ [](\A t \in Threads :
            /\ lock = t => pc[t] = "run"
            /\ pc[t] \in {"get_store", "psbt_lock"} =>
                   lock # t /\ storeLock # t /\ psbtLock # t)
    /\ []((\E t \in Threads : pc[t] # "idle") =>
            \E t \in Threads :
                ENABLED (get_store(t) \/ psbt_lock(t) \/ get_wallet(t)
                         \/ Return(t)))
    /\ \A t \in Threads : (pc[t] # "idle") ~> (pc[t] = "idle")

\* sign holds the psbt lock and the wallet lock while persist holds the
\* store lock and waits for the wallet lock
C20_Witness ==
    \E t, u \in Threads :
        /\ t # u
        /\ call[t].op = "sign" /\ psbtLock = t /\ lock = t
        /\ call[u].op = "persist" /\ storeLock = u /\ pc[u] = "get_wallet"

====
